---- MODULE Spec2Model ----
(***************************************************************************)
(* A model of paragen (src/src/paragen.rs): the glTF document records and  *)
(* their serde serialization with the skip_serializing_if predicates, the  *)
(* two-pass export write_gltf, and the result register POINTER / SIZE read *)
(* through pointer() and size().                                           *)
(*                                                                         *)
(* Conventions.                                                            *)
(*  - f64 values are written in tenths: 10 is 1.0, 5 is 0.5, 0 is 0.0.     *)
(*  - Option<T> is a sequence of length at most one: None is << >>,        *)
(*    Some(v) is <<v>>.                                                    *)
(*  - A JSON value is a record with a tag t: "lit" (a scalar, with the     *)
(*    chunks the formatter writes for it), "arr" or "obj".                 *)
(*  - The output of the serializer is the sequence of byte chunks it hands *)
(*    to the writer, one chunk per write call; a chunk is a string and its *)
(*    length in bytes is Len(chunk) (all text here is ASCII).              *)
(***************************************************************************)
EXTENDS Integers, Sequences, FiniteSets, TLC

\* ------------------------------------------------------------------------
\* Bounds of the model
\* ------------------------------------------------------------------------

\* Number of callers (threads) that may call the export entry point.
NumCallers == 2

\* Total number of export calls made in one behaviour.
MaxExports == 2

\* ------------------------------------------------------------------------
\* Small helpers
\* ------------------------------------------------------------------------

None == << >>

Some(v) == <<v>>

is_none(o) == Len(o) = 0

is_empty(s) == Len(s) = 0

\* String::is_empty
str_is_empty(s) == s = ""

RECURSIVE Concat(_)
\* The bytes of a sequence of chunks, as one string.
Concat(chunks) ==
  IF Len(chunks) = 0 THEN ""
  ELSE IF Len(chunks) = 1 THEN chunks[1]
  ELSE LET m == Len(chunks) \div 2
       IN Concat(SubSeq(chunks, 1, m)) \o Concat(SubSeq(chunks, m + 1, Len(chunks)))

RECURSIVE Flatten(_)
\* The concatenation of a sequence of sequences.
Flatten(ss) ==
  IF Len(ss) = 0 THEN << >>
  ELSE IF Len(ss) = 1 THEN ss[1]
  ELSE LET m == Len(ss) \div 2
       IN Flatten(SubSeq(ss, 1, m)) \o Flatten(SubSeq(ss, m + 1, Len(ss)))

\* ------------------------------------------------------------------------
\* JSON values and serde_json's pretty formatter (to_writer_pretty)
\* ------------------------------------------------------------------------

Lit(chunks) == [t |-> "lit", chunks |-> chunks]

\* A string: the opening quote, the text (no write for an empty text), the
\* closing quote.
JStr(s) == Lit(IF s = "" THEN <<"\"", "\"">> ELSE <<"\"", s, "\"">>)

\* An unsigned integer (u8, u16, u32): one write of its decimal digits.
JNum(n) == Lit(<<ToString(n)>>)

\* An f64, given in tenths: one write of its shortest decimal form, which
\* keeps one fractional digit for the values used here (1.0, 0.5, 0.0).
JF64(x) == Lit(<<ToString(x \div 10) \o "." \o ToString(x % 10)>>)

JBool(b) == Lit(<<IF b THEN "true" ELSE "false">>)

JArr(items) == [t |-> "arr", a |-> items]

\* A field of a struct: its JSON key, whether skip_serializing_if holds for
\* its value, and its serialized value.
Field(key, skip, val) == [key |-> key, skip |-> skip, val |-> val]

\* derive(Serialize) on a struct: the fields in declaration order, without
\* those whose skip_serializing_if predicate holds.
JStruct(fields) == [t |-> "obj", f |-> SelectSeq(fields, LAMBDA e : ~e.skip)]

\* Option<T> of an integer or of an enum written as its integer code, behind
\* skip_serializing_if = "Option::is_none": written only when it is Some.
JOpt(o) == IF is_none(o) THEN Lit(<<"null">>) ELSE JNum(o[1])

\* The keys of a serialized struct.
KeySet(json) == {json.f[i].key : i \in DOMAIN json.f}

\* The value serialized under a key of a struct.
ValueOf(json, key) ==
  LET i == CHOOSE j \in DOMAIN json.f : json.f[j].key = key IN json.f[i].val

Indent(n) == [i \in 1..n |-> "  "]

RECURSIVE Pretty(_, _)
\* PrettyFormatter with the indent "  ": the chunks written for a value
\* that starts at nesting depth ind.
Pretty(v, ind) ==
  CASE v.t = "lit" -> v.chunks
    [] v.t = "arr" ->
         <<"[">>
         \o Flatten([i \in DOMAIN v.a |->
              <<IF i = 1 THEN "\n" ELSE ",\n">> \o Indent(ind + 1)
              \o Pretty(v.a[i], ind + 1)])
         \o (IF Len(v.a) > 0 THEN <<"\n">> \o Indent(ind) ELSE << >>)
         \o <<"]">>
    [] v.t = "obj" ->
         <<"{">>
         \o Flatten([i \in DOMAIN v.f |->
              <<IF i = 1 THEN "\n" ELSE ",\n">> \o Indent(ind + 1)
              \o <<"\"", v.f[i].key, "\"">> \o <<": ">>
              \o Pretty(v.f[i].val, ind + 1)])
         \o (IF Len(v.f) > 0 THEN <<"\n">> \o Indent(ind) ELSE << >>)
         \o <<"}">>

\* serde_json::ser::to_writer_pretty: the write calls for a value.
to_writer_pretty(json) == Pretty(json, 0)

\* ------------------------------------------------------------------------
\* The document data model and its derived serialization
\* ------------------------------------------------------------------------

\* Asset::new
Asset_new ==
  [copyright |-> "", generator |-> "Paragen v0.1.0", version |-> "2.0",
   min_version |-> "2.0"]

\* Asset: version has no skip_serializing_if.
Asset_serialize(a) ==
  JStruct(<<
    Field("copyright", str_is_empty(a.copyright), JStr(a.copyright)),
    Field("generator", str_is_empty(a.generator), JStr(a.generator)),
    Field("version", FALSE, JStr(a.version)),
    Field("minVersion", str_is_empty(a.min_version), JStr(a.min_version))>>)

\* Scene::new
Scene_new == [name |-> "", nodes |-> << >>]

Scene_serialize(s) ==
  JStruct(<<
    Field("name", str_is_empty(s.name), JStr(s.name)),
    Field("nodes", is_empty(s.nodes), JArr([i \in DOMAIN s.nodes |-> JNum(s.nodes[i])]))>>)

\* Translation::new
Translation_new == [x |-> 0, y |-> 0, z |-> 0]

\* Translation::is_default: PartialEq against Translation::new()
Translation_is_default(t) == t = Translation_new

\* Serialize_tuple: an array of the components in declaration order
Translation_serialize(t) == JArr(<<JF64(t.x), JF64(t.y), JF64(t.z)>>)

\* Rotation::new
Rotation_new == [x |-> 0, y |-> 0, z |-> 0, w |-> 10]

Rotation_is_default(r) == r = Rotation_new

Rotation_serialize(r) == JArr(<<JF64(r.x), JF64(r.y), JF64(r.z), JF64(r.w)>>)

\* Scale::new
Scale_new == [x |-> 10, y |-> 10, z |-> 10]

Scale_is_default(s) == s = Scale_new

Scale_serialize(s) == JArr(<<JF64(s.x), JF64(s.y), JF64(s.z)>>)

\* Node::new
Node_new ==
  [name |-> "", mesh |-> None, t |-> Translation_new, r |-> Rotation_new,
   s |-> Scale_new, children |-> << >>]

Node_serialize(n) ==
  JStruct(<<
    Field("name", str_is_empty(n.name), JStr(n.name)),
    Field("mesh", is_none(n.mesh), JOpt(n.mesh)),
    Field("translation", Translation_is_default(n.t), Translation_serialize(n.t)),
    Field("rotation", Rotation_is_default(n.r), Rotation_serialize(n.r)),
    Field("scale", Scale_is_default(n.s), Scale_serialize(n.s)),
    Field("children", is_empty(n.children), JArr([i \in DOMAIN n.children |-> JNum(n.children[i])]))>>)

\* enum AlphaMode: a unit variant is serialized as its name
AlphaMode == {"OPAQUE", "MASK", "BLEND"}

AlphaMode_serialize(m) == JStr(m)

\* Color4::new
Color4_new == [r |-> 10, g |-> 10, b |-> 10, a |-> 10]

Color4_is_default(c) == c = Color4_new

Color4_serialize(c) == JArr(<<JF64(c.r), JF64(c.g), JF64(c.b), JF64(c.a)>>)

is_default_metallic_factor(value) == value = 10

is_default_roughness_factor(value) == value = 10

is_default_emissive_factor(value) == value = <<0, 0, 0>>

is_default_alpha_mode(value) == value = "OPAQUE"

is_default_alpha_cutoff(value) == value = 5

is_default_double_sided(value) == value = FALSE

\* PBRMetallicRoughness::new
PBRMetallicRoughness_new ==
  [base_color_factor |-> Color4_new, metallic_factor |-> 10,
   roughness_factor |-> 10]

PBRMetallicRoughness_serialize(p) ==
  JStruct(<<
    Field("baseColorFactor", Color4_is_default(p.base_color_factor),
          Color4_serialize(p.base_color_factor)),
    Field("metallicFactor", is_default_metallic_factor(p.metallic_factor),
          JF64(p.metallic_factor)),
    Field("roughnessFactor", is_default_roughness_factor(p.roughness_factor),
          JF64(p.roughness_factor))>>)

\* Material::new
Material_new ==
  [name |-> "", emissive_factor |-> <<0, 0, 0>>, alpha_mode |-> "OPAQUE",
   alpha_cutoff |-> 5, double_sided |-> FALSE,
   pbr_metallic_roughness |-> PBRMetallicRoughness_new]

\* Material: pbr_metallic_roughness has no skip_serializing_if.
Material_serialize(m) ==
  JStruct(<<
    Field("name", str_is_empty(m.name), JStr(m.name)),
    Field("emissiveFactor", is_default_emissive_factor(m.emissive_factor),
          JArr([i \in DOMAIN m.emissive_factor |-> JF64(m.emissive_factor[i])])),
    Field("alphaMode", is_default_alpha_mode(m.alpha_mode),
          AlphaMode_serialize(m.alpha_mode)),
    Field("alphaCutoff", is_default_alpha_cutoff(m.alpha_cutoff),
          JF64(m.alpha_cutoff)),
    Field("doubleSided", is_default_double_sided(m.double_sided),
          JBool(m.double_sided)),
    Field("pbrMetallicRoughness", FALSE,
          PBRMetallicRoughness_serialize(m.pbr_metallic_roughness))>>)

\* Attributes::new
Attributes_new ==
  [color_0 |-> None, joints_0 |-> None, normal |-> None, position |-> None,
   tangent |-> None, texcoord_0 |-> None, texcoord_1 |-> None,
   texcoord_2 |-> None, texcoord_3 |-> None, weights_0 |-> None]

Attributes_serialize(a) ==
  JStruct(<<
    Field("COLOR_0", is_none(a.color_0), JOpt(a.color_0)),
    Field("JOINTS_0", is_none(a.joints_0), JOpt(a.joints_0)),
    Field("NORMAL", is_none(a.normal), JOpt(a.normal)),
    Field("POSITION", is_none(a.position), JOpt(a.position)),
    Field("TANGENT", is_none(a.tangent), JOpt(a.tangent)),
    Field("TEXCOORD_0", is_none(a.texcoord_0), JOpt(a.texcoord_0)),
    Field("TEXCOORD_1", is_none(a.texcoord_1), JOpt(a.texcoord_1)),
    Field("TEXCOORD_2", is_none(a.texcoord_2), JOpt(a.texcoord_2)),
    Field("TEXCOORD_3", is_none(a.texcoord_3), JOpt(a.texcoord_3)),
    Field("WEIGHTS_0", is_none(a.weights_0), JOpt(a.weights_0))>>)

\* enum Mode, repr(u8), Serialize_repr: written as its discriminant
Mode_Points == 0

Mode_Triangles == 4

is_default_mode(value) == value = Mode_Triangles

\* MeshPrimitive::new
MeshPrimitive_new ==
  [attributes |-> Attributes_new, indices |-> None, material |-> None,
   mode |-> Mode_Triangles]

\* MeshPrimitive: attributes has no skip_serializing_if.
MeshPrimitive_serialize(p) ==
  JStruct(<<
    Field("attributes", FALSE, Attributes_serialize(p.attributes)),
    Field("indices", is_none(p.indices), JOpt(p.indices)),
    Field("material", is_none(p.material), JOpt(p.material)),
    Field("mode", is_default_mode(p.mode), JNum(p.mode))>>)

\* Mesh::new
Mesh_new == [name |-> "", primitives |-> << >>, weights |-> << >>]

\* Mesh: primitives has no skip_serializing_if.
Mesh_serialize(m) ==
  JStruct(<<
    Field("name", str_is_empty(m.name), JStr(m.name)),
    Field("primitives", FALSE, JArr([i \in DOMAIN m.primitives |-> MeshPrimitive_serialize(m.primitives[i])])),
    Field("weights", is_empty(m.weights), JArr([i \in DOMAIN m.weights |-> JF64(m.weights[i])]))>>)

\* enum ComponentType, repr(u16), Serialize_repr
ComponentType_Byte == 5120

ComponentType_Float == 5126

\* enum Type: a unit variant is serialized as its name
Type == {"SCALAR", "VEC2", "VEC3", "VEC4", "MAT2", "MAT3", "MAT4"}

\* A faulty is_default_byte_offset, with the comparison inverted.
is_default_byte_offset_Inverted(value) == value # 0

is_default_byte_offset(value) == value = 0

is_default_normalized(value) == value = FALSE

\* Accessor::new
Accessor_new ==
  [name |-> "", buffer_view |-> None, byte_offset |-> 0,
   component_type |-> ComponentType_Byte, normalized |-> FALSE, count |-> 0,
   type_ |-> "SCALAR", max |-> << >>, min |-> << >>]

\* Accessor: componentType, count and type have no skip_serializing_if.
Accessor_serialize(a) ==
  JStruct(<<
    Field("name", str_is_empty(a.name), JStr(a.name)),
    Field("bufferView", is_none(a.buffer_view), JOpt(a.buffer_view)),
    Field("byteOffset", is_default_byte_offset(a.byte_offset),
          JNum(a.byte_offset)),
    Field("componentType", FALSE, JNum(a.component_type)),
    Field("normalized", is_default_normalized(a.normalized),
          JBool(a.normalized)),
    Field("count", FALSE, JNum(a.count)),
    Field("type", FALSE, JStr(a.type_)),
    Field("max", is_empty(a.max), JArr([i \in DOMAIN a.max |-> JF64(a.max[i])])),
    Field("min", is_empty(a.min), JArr([i \in DOMAIN a.min |-> JF64(a.min[i])]))>>)

\* enum Target, repr(u16), Serialize_repr
Target_ArrayBuffer == 34962

Target_ElementArrayBuffer == 34963

\* BufferView::new
BufferView_new ==
  [name |-> "", buffer |-> 0, byte_length |-> 0, byte_offset |-> 0,
   byte_stride |-> None, target |-> None]

\* BufferView: buffer, byteLength and byteOffset have no skip_serializing_if.
BufferView_serialize(v) ==
  JStruct(<<
    Field("name", str_is_empty(v.name), JStr(v.name)),
    Field("buffer", FALSE, JNum(v.buffer)),
    Field("byteLength", FALSE, JNum(v.byte_length)),
    Field("byteOffset", FALSE, JNum(v.byte_offset)),
    Field("byteStride", is_none(v.byte_stride), JOpt(v.byte_stride)),
    Field("target", is_none(v.target), JOpt(v.target))>>)

\* Buffer::new
Buffer_new == [name |-> "", byte_length |-> 0, uri |-> ""]

\* Buffer: byteLength has no skip_serializing_if.
Buffer_serialize(b) ==
  JStruct(<<
    Field("name", str_is_empty(b.name), JStr(b.name)),
    Field("byteLength", FALSE, JNum(b.byte_length)),
    Field("uri", str_is_empty(b.uri), JStr(b.uri))>>)

\* GLTF::new
GLTF_new ==
  [asset |-> Asset_new, scene |-> None, scenes |-> << >>, nodes |-> << >>,
   materials |-> << >>, meshes |-> << >>, accessors |-> << >>,
   buffer_views |-> << >>, buffers |-> << >>]

\* GLTF: asset has no skip_serializing_if.
GLTF_serialize(g) ==
  JStruct(<<
    Field("asset", FALSE, Asset_serialize(g.asset)),
    Field("scene", is_none(g.scene), JOpt(g.scene)),
    Field("scenes", is_empty(g.scenes), JArr([i \in DOMAIN g.scenes |-> Scene_serialize(g.scenes[i])])),
    Field("nodes", is_empty(g.nodes), JArr([i \in DOMAIN g.nodes |-> Node_serialize(g.nodes[i])])),
    Field("materials", is_empty(g.materials),
          JArr([i \in DOMAIN g.materials |-> Material_serialize(g.materials[i])])),
    Field("meshes", is_empty(g.meshes), JArr([i \in DOMAIN g.meshes |-> Mesh_serialize(g.meshes[i])])),
    Field("accessors", is_empty(g.accessors),
          JArr([i \in DOMAIN g.accessors |-> Accessor_serialize(g.accessors[i])])),
    Field("bufferViews", is_empty(g.buffer_views),
          JArr([i \in DOMAIN g.buffer_views |-> BufferView_serialize(g.buffer_views[i])])),
    Field("buffers", is_empty(g.buffers), JArr([i \in DOMAIN g.buffers |-> Buffer_serialize(g.buffers[i])]))>>)

\* ------------------------------------------------------------------------
\* State
\* ------------------------------------------------------------------------

VARIABLES
  MUTEX_TEST,      \* the guarded scratch buffer: [locked, vec]
  POINTER,         \* AtomicU32
  SIZE,            \* AtomicU32
  pc,              \* per caller: where it is in the export
  guard,           \* per caller: whether it holds the MutexGuard
  gltf,            \* per caller: the document passed to the export
  space_required,  \* per caller: write_gltf's local of that name
  ret,             \* per caller: the codes its last export call returned
  rd,              \* the last accessor call and the value it returned
  entry_vec,       \* history: per caller, the buffer as write_gltf got it
  overlapped,      \* history: per caller, a call found its export in flight
  published,       \* history: (location, length) of every completed export
  last_success,    \* history: the register as the last completed export set it
  total_required,  \* history: the sum of space_required over completed exports
  n_exports,       \* number of export calls made so far
  entity,          \* serialization: the value handed to the serializer
  json             \* serialization: what the serializer produced for it

export_vars ==
  <<MUTEX_TEST, POINTER, SIZE, pc, guard, gltf, space_required, ret, rd,
    entry_vec, overlapped, published, last_success, total_required,
    n_exports>>

ser_vars == <<entity, json>>

vars == <<export_vars, ser_vars>>

Callers == 1..NumCallers

\* enum ErrorCode, repr(i32)
ErrorCode_None == 0

ErrorCode_Mutex == 1

ErrorCode_Generation == 2

\* i32::MAX, the largest value the accessors return without a change of
\* sign (and the largest integer of the model checker).
I32_MAX == 2147483647

\* `as u32` of a pointer or a length: on the 32 bit target the source names,
\* usize is 32 bits wide and the cast keeps the value.
AsU32(x) == x

\* `as i32` of a u32: the same bits, so a value above i32::MAX turns negative.
AsI32(x) == IF x > I32_MAX THEN (x - I32_MAX) - I32_MAX - 2 ELSE x

\* ------------------------------------------------------------------------
\* Vec<u8>: its allocation (ptr, cap) and its bytes, kept as the segments
\* appended to it; the bytes are the concatenation of the segments.
\* ------------------------------------------------------------------------

\* Addresses the allocator may return.
Addrs == {1024, 2048}

\* Vec::new: no allocation, a dangling (alignment-valued) pointer.
Vec_new == [ptr |-> 1, cap |-> 0, data |-> << >>]

RECURSIVE SumLen(_)
\* The number of bytes in a sequence of segments.
SumLen(chunks) ==
  IF Len(chunks) = 0 THEN 0
  ELSE IF Len(chunks) = 1 THEN Len(chunks[1])
  ELSE LET m == Len(chunks) \div 2
       IN SumLen(SubSeq(chunks, 1, m)) + SumLen(SubSeq(chunks, m + 1, Len(chunks)))

\* Vec::len
Vec_len(v) == SumLen(v.data)

\* Vec::reserve_exact(additional), the allocation moving to addr when the
\* capacity has to grow.
Vec_reserve_exact(v, additional, addr) ==
  IF v.cap - Vec_len(v) >= additional
    THEN v
    ELSE [v EXCEPT !.cap = Vec_len(v) + additional, !.ptr = addr]

\* A faulty writer that starts from an emptied buffer instead of appending.
Vec_write_all_Overwrite(v, chunks) ==
  LET grown == IF Len(chunks) = 0 THEN << >> ELSE <<Concat(chunks)>>
      len == SumLen(grown)
  IN [v EXCEPT !.data = grown, !.cap = IF len > v.cap THEN len ELSE v.cap]

\* impl Write for Vec<u8>, over a run of write calls: the bytes are appended.
Vec_write_all(v, chunks) ==
  LET grown == IF Len(chunks) = 0 THEN v.data
               ELSE Append(v.data, Concat(chunks))
      len == SumLen(grown)
  IN [v EXCEPT !.data = grown, !.cap = IF len > v.cap THEN len ELSE v.cap]

\* Vec::shrink_to_fit, the allocation moving to addr when it is resized.
Vec_shrink_to_fit(v, addr) ==
  IF v.cap > Vec_len(v) THEN [v EXCEPT !.cap = Vec_len(v), !.ptr = addr] ELSE v

\* ------------------------------------------------------------------------
\* DryRunWriter
\* ------------------------------------------------------------------------

DryRunWriter_new == [bytes_written |-> 0]

\* DryRunWriter::write: count the bytes, keep nothing.
DryRunWriter_write(w, buf) == [bytes_written |-> w.bytes_written + Len(buf)]

RECURSIVE DryRunWriter_write_all(_, _)
\* The writer after a run of write calls: the calls of the second half are
\* made on the writer h that the calls of the first half left.
DryRunWriter_write_all(w, chunks) ==
  IF Len(chunks) = 0 THEN w
  ELSE IF Len(chunks) = 1 THEN DryRunWriter_write(w, chunks[1])
  ELSE LET m == Len(chunks) \div 2
       IN CHOOSE r \in
            {DryRunWriter_write_all(h, SubSeq(chunks, m + 1, Len(chunks))) :
               h \in {DryRunWriter_write_all(w, SubSeq(chunks, 1, m))}} : TRUE

\* ------------------------------------------------------------------------
\* pointer() and size()
\* ------------------------------------------------------------------------

pointer == AsI32(POINTER)

size == AsI32(SIZE)

\* A call of pointer(): loads POINTER and returns it.
call_pointer ==
  /\ rd' = [fn |-> "pointer", val |-> pointer]
  /\ UNCHANGED <<MUTEX_TEST, POINTER, SIZE, pc, guard, gltf, space_required,
                 ret, entry_vec, overlapped, published, last_success,
                 total_required, n_exports, ser_vars>>

\* A faulty size() that takes the value out of SIZE (swap with 0).
call_size_Swap ==
  /\ rd' = [fn |-> "size", val |-> size]
  /\ SIZE' = 0
  /\ UNCHANGED <<MUTEX_TEST, POINTER, pc, guard, gltf, space_required,
                 ret, entry_vec, overlapped, published, last_success,
                 total_required, n_exports, ser_vars>>

\* A call of size(): loads SIZE and returns it.
call_size ==
  /\ rd' = [fn |-> "size", val |-> size]
  /\ UNCHANGED <<MUTEX_TEST, POINTER, SIZE, pc, guard, gltf, space_required,
                 ret, entry_vec, overlapped, published, last_success,
                 total_required, n_exports, ser_vars>>

\* ------------------------------------------------------------------------
\* The export
\* ------------------------------------------------------------------------

\* The documents callers export.
Documents ==
  { GLTF_new,
    [GLTF_new EXCEPT !.scene = Some(0),
                     !.scenes = <<[Scene_new EXCEPT !.nodes = <<0>>]>>,
                     !.nodes = <<[Node_new EXCEPT !.t.x = 10]>>] }

\* The write calls the serializer makes for each document: a function of
\* the document alone.
SerializedOf == [g \in Documents |-> to_writer_pretty(GLTF_serialize(g))]

\* serde_json::ser::to_writer_pretty(writer, &gltf): the write calls made on
\* the writer.
Serialized(g) == SerializedOf[g]

\* After how many write calls a failing second pass may stop: the model takes
\* the earliest fault that leaves bytes behind, after the first write.
Cuts(chunks) == {1}

\* The positions of a caller inside an export.
InExport ==
  {"dry_run", "real_run", "store_pointer", "store_size", "returned", "panicked"}

\* A faulty entry point that calls write_gltf without looking at the lock.
export_begin_NoTryLock(p, g) ==
  /\ pc[p] = "idle"
  /\ n_exports < MaxExports
  /\ n_exports' = n_exports + 1
  /\ MUTEX_TEST' = [MUTEX_TEST EXCEPT !.locked = TRUE]
  /\ guard' = [guard EXCEPT ![p] = TRUE]
  /\ gltf' = [gltf EXCEPT ![p] = g]
  /\ pc' = [pc EXCEPT ![p] = "dry_run"]
  /\ ret' = [ret EXCEPT ![p] = << >>]
  /\ overlapped' = [q \in Callers |-> q # p /\ (overlapped[q] \/ guard[q])]
  /\ entry_vec' = [entry_vec EXCEPT ![p] = MUTEX_TEST.vec]
  /\ UNCHANGED <<POINTER, SIZE, space_required, rd, published, last_success,
                 total_required, ser_vars>>

\* The entry point takes the lock without blocking: with the register held
\* it returns Mutex at once; otherwise it holds the guard and calls
\* write_gltf on the guarded buffer with the document g.
export_begin(p, g) ==
  /\ pc[p] = "idle"
  /\ n_exports < MaxExports
  /\ n_exports' = n_exports + 1
  /\ \/ /\ MUTEX_TEST.locked
        /\ ret' = [ret EXCEPT ![p] = <<ErrorCode_Mutex>>]
        /\ overlapped' = [q \in Callers |-> overlapped[q] \/ guard[q]]
        /\ UNCHANGED <<MUTEX_TEST, pc, guard, gltf, entry_vec>>
     \/ /\ ~MUTEX_TEST.locked
        /\ MUTEX_TEST' = [MUTEX_TEST EXCEPT !.locked = TRUE]
        /\ guard' = [guard EXCEPT ![p] = TRUE]
        /\ gltf' = [gltf EXCEPT ![p] = g]
        /\ pc' = [pc EXCEPT ![p] = "dry_run"]
        /\ ret' = [ret EXCEPT ![p] = << >>]
        /\ overlapped' = [overlapped EXCEPT ![p] = FALSE]
        /\ entry_vec' = [entry_vec EXCEPT ![p] = MUTEX_TEST.vec]
  /\ UNCHANGED <<POINTER, SIZE, space_required, rd, published, last_success,
                 total_required, ser_vars>>

\* A faulty first pass that publishes the buffer's location before the
\* document has been serialized.
write_gltf_dry_run_StoresFirst(p) ==
  /\ pc[p] = "dry_run"
  /\ POINTER' = AsU32(MUTEX_TEST.vec.ptr)
  /\ \E ok \in BOOLEAN :
       IF ok
         THEN /\ space_required' =
                   [space_required EXCEPT ![p] =
                      DryRunWriter_write_all(DryRunWriter_new,
                                             Serialized(gltf[p])).bytes_written]
              /\ pc' = [pc EXCEPT ![p] = "real_run"]
         ELSE /\ pc' = [pc EXCEPT ![p] = "panicked"]
              /\ UNCHANGED space_required
  /\ UNCHANGED <<MUTEX_TEST, SIZE, guard, gltf, ret, rd, entry_vec,
                 overlapped, published, last_success, total_required,
                 n_exports, ser_vars>>

\* write_gltf, first pass: the document is serialized into a DryRunWriter
\* and the result unwrapped; space_required is the count.
write_gltf_dry_run(p) ==
  /\ pc[p] = "dry_run"
  /\ \E ok \in BOOLEAN :
       IF ok
         THEN /\ space_required' =
                   [space_required EXCEPT ![p] =
                      DryRunWriter_write_all(DryRunWriter_new,
                                             Serialized(gltf[p])).bytes_written]
              /\ pc' = [pc EXCEPT ![p] = "real_run"]
         ELSE /\ pc' = [pc EXCEPT ![p] = "panicked"]
              /\ UNCHANGED space_required
  /\ UNCHANGED <<MUTEX_TEST, POINTER, SIZE, guard, gltf, ret, rd, entry_vec,
                 overlapped, published, last_success, total_required,
                 n_exports, ser_vars>>

\* write_gltf, second pass: reserve_exact(space_required), the document
\* serialized into the buffer and the result unwrapped, shrink_to_fit.
write_gltf_real_run(p) ==
  /\ pc[p] = "real_run"
  /\ \E ok \in BOOLEAN, a1 \in Addrs, a2 \in Addrs :
       LET out == Serialized(gltf[p])
           reserved == Vec_reserve_exact(MUTEX_TEST.vec, space_required[p], a1)
       IN IF ok
            THEN /\ MUTEX_TEST' =
                      [MUTEX_TEST EXCEPT !.vec =
                         Vec_shrink_to_fit(Vec_write_all(reserved, out), a2)]
                 /\ pc' = [pc EXCEPT ![p] = "store_pointer"]
            ELSE /\ \E k \in Cuts(out) :
                      MUTEX_TEST' =
                        [MUTEX_TEST EXCEPT !.vec =
                           Vec_write_all(reserved, SubSeq(out, 1, k))]
                 /\ pc' = [pc EXCEPT ![p] = "panicked"]
  /\ UNCHANGED <<POINTER, SIZE, guard, gltf, space_required, ret, rd,
                 entry_vec, overlapped, published, last_success,
                 total_required, n_exports, ser_vars>>

\* write_gltf: POINTER.store(buffer.as_ptr() as u32)
write_gltf_store_pointer(p) ==
  /\ pc[p] = "store_pointer"
  /\ POINTER' = AsU32(MUTEX_TEST.vec.ptr)
  /\ pc' = [pc EXCEPT ![p] = "store_size"]
  /\ UNCHANGED <<MUTEX_TEST, SIZE, guard, gltf, space_required, ret, rd,
                 entry_vec, overlapped, published, last_success,
                 total_required, n_exports, ser_vars>>

\* write_gltf: SIZE.store(buffer.len() as u32), and the return
write_gltf_store_size(p) ==
  /\ pc[p] = "store_size"
  /\ SIZE' = AsU32(Vec_len(MUTEX_TEST.vec))
  /\ pc' = [pc EXCEPT ![p] = "returned"]
  /\ published' = published \cup {<<POINTER, SIZE'>>}
  /\ last_success' = <<POINTER, SIZE'>>
  /\ total_required' = total_required + space_required[p]
  /\ UNCHANGED <<MUTEX_TEST, POINTER, guard, gltf, space_required, ret, rd,
                 entry_vec, overlapped, n_exports, ser_vars>>

\* A faulty entry point that lets the fault of the serializer unwind through
\* it: the guard is dropped by the unwinding, no code is returned.
export_end_Uncaught(p) ==
  /\ pc[p] \in {"returned", "panicked"}
  /\ ret' = [ret EXCEPT ![p] = IF pc[p] = "returned"
                                 THEN <<ErrorCode_None>>
                                 ELSE << >>]
  /\ MUTEX_TEST' = [MUTEX_TEST EXCEPT !.locked = FALSE]
  /\ guard' = [guard EXCEPT ![p] = FALSE]
  /\ pc' = [pc EXCEPT ![p] = IF pc[p] = "returned" THEN "idle" ELSE "aborted"]
  /\ gltf' = [gltf EXCEPT ![p] = GLTF_new]
  /\ space_required' = [space_required EXCEPT ![p] = 0]
  /\ entry_vec' = [entry_vec EXCEPT ![p] = Vec_new]
  /\ overlapped' = [overlapped EXCEPT ![p] = FALSE]
  /\ UNCHANGED <<POINTER, SIZE, rd, published, last_success,
                 total_required, n_exports, ser_vars>>

\* A faulty entry point that releases the lock on the successful path only.
export_end_KeepsLockOnFault(p) ==
  /\ pc[p] \in {"returned", "panicked"}
  /\ ret' = [ret EXCEPT ![p] = IF pc[p] = "returned"
                                 THEN <<ErrorCode_None>>
                                 ELSE <<ErrorCode_Generation>>]
  /\ MUTEX_TEST' = [MUTEX_TEST EXCEPT !.locked = (pc[p] = "panicked")]
  /\ guard' = [guard EXCEPT ![p] = (pc[p] = "panicked")]
  /\ pc' = [pc EXCEPT ![p] = "idle"]
  /\ gltf' = [gltf EXCEPT ![p] = GLTF_new]
  /\ space_required' = [space_required EXCEPT ![p] = 0]
  /\ entry_vec' = [entry_vec EXCEPT ![p] = Vec_new]
  /\ overlapped' = [overlapped EXCEPT ![p] = FALSE]
  /\ UNCHANGED <<POINTER, SIZE, rd, published, last_success,
                 total_required, n_exports, ser_vars>>

\* The entry point after write_gltf: a fault of the serializer is caught and
\* becomes Generation, a normal return becomes None; the guard is dropped on
\* both paths, and the locals of the call are gone.
export_end(p) ==
  /\ pc[p] \in {"returned", "panicked"}
  /\ ret' = [ret EXCEPT ![p] = IF pc[p] = "returned"
                                 THEN <<ErrorCode_None>>
                                 ELSE <<ErrorCode_Generation>>]
  /\ MUTEX_TEST' = [MUTEX_TEST EXCEPT !.locked = FALSE]
  /\ guard' = [guard EXCEPT ![p] = FALSE]
  /\ pc' = [pc EXCEPT ![p] = "idle"]
  /\ gltf' = [gltf EXCEPT ![p] = GLTF_new]
  /\ space_required' = [space_required EXCEPT ![p] = 0]
  /\ entry_vec' = [entry_vec EXCEPT ![p] = Vec_new]
  /\ overlapped' = [overlapped EXCEPT ![p] = FALSE]
  /\ UNCHANGED <<POINTER, SIZE, rd, published, last_success,
                 total_required, n_exports, ser_vars>>

Init ==
  /\ MUTEX_TEST = [locked |-> FALSE, vec |-> Vec_new]
  /\ POINTER = 0
  /\ SIZE = 0
  /\ pc = [p \in Callers |-> "idle"]
  /\ guard = [p \in Callers |-> FALSE]
  /\ gltf = [p \in Callers |-> GLTF_new]
  /\ space_required = [p \in Callers |-> 0]
  /\ ret = [p \in Callers |-> << >>]
  /\ rd = [fn |-> "none", val |-> 0]
  /\ entry_vec = [p \in Callers |-> Vec_new]
  /\ overlapped = [p \in Callers |-> FALSE]
  /\ published = {}
  /\ last_success = <<0, 0>>
  /\ total_required = 0
  /\ n_exports = 0
  /\ entity = [kind |-> "none"]
  /\ json = [t |-> "none"]

Next ==
  \/ \E p \in Callers, g \in Documents : export_begin(p, g)
  \/ \E p \in Callers : write_gltf_dry_run(p)
  \/ \E p \in Callers : write_gltf_real_run(p)
  \/ \E p \in Callers : write_gltf_store_pointer(p)
  \/ \E p \in Callers : write_gltf_store_size(p)
  \/ \E p \in Callers : export_end(p)
  \/ call_pointer
  \/ call_size

Spec == Init /\ [][Next]_vars

\* ------------------------------------------------------------------------
\* Serialization of single entities
\* ------------------------------------------------------------------------

\* Values the fields of the entities are drawn from.
Strings == {"", "a"}

Indices == {None, Some(0)}

IndexLists == {<< >>, <<0>>}

F64Lists == {<< >>, <<5>>}

Translations == {Translation_new, [x |-> 10, y |-> 0, z |-> 0],
                 [x |-> 0, y |-> 0, z |-> 5]}

Rotations == {Rotation_new, [x |-> 10, y |-> 0, z |-> 0, w |-> 0]}

Scales == {Scale_new, [x |-> 10, y |-> 10, z |-> 20]}

Colors == {Color4_new, [r |-> 10, g |-> 5, b |-> 10, a |-> 10]}

Assets ==
  [copyright : Strings, generator : {"", "Paragen v0.1.0"},
   version : {"", "2.0"}, min_version : {"", "2.0"}]

Scenes == [name : Strings, nodes : IndexLists]

Nodes ==
  [name : Strings, mesh : Indices, t : Translations, r : Rotations,
   s : Scales, children : IndexLists]

PBRs ==
  [base_color_factor : Colors, metallic_factor : {10, 0},
   roughness_factor : {10, 5}]

Materials ==
  [name : Strings, emissive_factor : {<<0, 0, 0>>, <<10, 0, 0>>},
   alpha_mode : AlphaMode, alpha_cutoff : {5, 10}, double_sided : BOOLEAN,
   pbr_metallic_roughness : PBRs]

AttributeSets ==
  [color_0 : Indices, joints_0 : Indices, normal : Indices,
   position : Indices, tangent : Indices, texcoord_0 : Indices,
   texcoord_1 : Indices, texcoord_2 : Indices, texcoord_3 : Indices,
   weights_0 : Indices]

MeshPrimitives ==
  [attributes : {Attributes_new, [Attributes_new EXCEPT !.position = Some(0)]},
   indices : Indices, material : Indices,
   mode : {Mode_Triangles, Mode_Points}]

Meshes ==
  [name : Strings, primitives : {<< >>, <<MeshPrimitive_new>>},
   weights : F64Lists]

Accessors ==
  [name : Strings, buffer_view : Indices, byte_offset : {0, 4},
   component_type : {ComponentType_Byte, ComponentType_Float},
   normalized : BOOLEAN, count : {0, 3}, type_ : {"SCALAR", "VEC3"},
   max : F64Lists, min : F64Lists]

BufferViews ==
  [name : Strings, buffer : {0, 1}, byte_length : {0, 12},
   byte_offset : {0, 4}, byte_stride : {None, Some(4)},
   target : {None, Some(Target_ArrayBuffer), Some(Target_ElementArrayBuffer)}]

Buffers == [name : Strings, byte_length : {0, 12}, uri : {"", "a.bin"}]

GLTFs ==
  [asset : {Asset_new}, scene : Indices,
   scenes : {<< >>, <<Scene_new>>}, nodes : {<< >>, <<Node_new>>},
   materials : {<< >>, <<Material_new>>}, meshes : {<< >>, <<Mesh_new>>},
   accessors : {<< >>, <<Accessor_new>>},
   buffer_views : {<< >>, <<BufferView_new>>},
   buffers : {<< >>, <<Buffer_new>>}]

Of(kind, values) == {[kind |-> kind, v |-> x] : x \in values}

\* Every value handed to the serializer, with the kind of entity it is.
Entities ==
  Of("GLTF", GLTFs) \cup Of("Asset", Assets) \cup Of("Scene", Scenes)
  \cup Of("Node", Nodes) \cup Of("Material", Materials)
  \cup Of("PBRMetallicRoughness", PBRs) \cup Of("Mesh", Meshes)
  \cup Of("MeshPrimitive", MeshPrimitives)
  \cup Of("Attributes", AttributeSets) \cup Of("Accessor", Accessors)
  \cup Of("BufferView", BufferViews) \cup Of("Buffer", Buffers)

\* The derived Serialize implementation of each entity.
serialize(e) ==
  CASE e.kind = "GLTF" -> GLTF_serialize(e.v)
    [] e.kind = "Asset" -> Asset_serialize(e.v)
    [] e.kind = "Scene" -> Scene_serialize(e.v)
    [] e.kind = "Node" -> Node_serialize(e.v)
    [] e.kind = "Material" -> Material_serialize(e.v)
    [] e.kind = "PBRMetallicRoughness" -> PBRMetallicRoughness_serialize(e.v)
    [] e.kind = "Mesh" -> Mesh_serialize(e.v)
    [] e.kind = "MeshPrimitive" -> MeshPrimitive_serialize(e.v)
    [] e.kind = "Attributes" -> Attributes_serialize(e.v)
    [] e.kind = "Accessor" -> Accessor_serialize(e.v)
    [] e.kind = "BufferView" -> BufferView_serialize(e.v)
    [] e.kind = "Buffer" -> Buffer_serialize(e.v)

\* The entity is serialized.
Serialize ==
  /\ json.t = "none"
  /\ json' = serialize(entity)
  /\ UNCHANGED <<entity, export_vars>>

InitSer ==
  /\ MUTEX_TEST = [locked |-> FALSE, vec |-> Vec_new]
  /\ POINTER = 0
  /\ SIZE = 0
  /\ pc = [p \in Callers |-> "idle"]
  /\ guard = [p \in Callers |-> FALSE]
  /\ gltf = [p \in Callers |-> GLTF_new]
  /\ space_required = [p \in Callers |-> 0]
  /\ ret = [p \in Callers |-> << >>]
  /\ rd = [fn |-> "none", val |-> 0]
  /\ entry_vec = [p \in Callers |-> Vec_new]
  /\ overlapped = [p \in Callers |-> FALSE]
  /\ published = {}
  /\ last_success = <<0, 0>>
  /\ total_required = 0
  /\ n_exports = 0
  /\ entity \in Entities
  /\ json = [t |-> "none"]

NextSer == Serialize

SpecSer == InitSer /\ [][NextSer]_vars

\* ------------------------------------------------------------------------
\* Properties of the serialization (under SpecSer)
\* ------------------------------------------------------------------------

\* The key when the field is not at its default.
Keep(nondefault, key) == IF nondefault THEN {key} ELSE {}

\* The keys section 4.1 asks for: a string unless empty, a float unless at
\* its literal default, a vector type unless equal to its default as a whole,
\* a collection unless empty, an optional reference when it is set, a nested
\* block unless it is the default block; and always the fields the document
\* model gives no default or calls mandatory or always emitted.
NonDefaultKeys(e) ==
  LET v == e.v
  IN CASE e.kind = "GLTF" ->
            {"asset"} \cup Keep(v.scene # << >>, "scene")
            \cup Keep(v.scenes # << >>, "scenes")
            \cup Keep(v.nodes # << >>, "nodes")
            \cup Keep(v.materials # << >>, "materials")
            \cup Keep(v.meshes # << >>, "meshes")
            \cup Keep(v.accessors # << >>, "accessors")
            \cup Keep(v.buffer_views # << >>, "bufferViews")
            \cup Keep(v.buffers # << >>, "buffers")
       [] e.kind = "Asset" ->
            {"version"} \cup Keep(v.copyright # "", "copyright")
            \cup Keep(v.generator # "", "generator")
            \cup Keep(v.min_version # "", "minVersion")
       [] e.kind = "Scene" ->
            Keep(v.name # "", "name") \cup Keep(v.nodes # << >>, "nodes")
       [] e.kind = "Node" ->
            Keep(v.name # "", "name") \cup Keep(v.mesh # << >>, "mesh")
            \cup Keep(v.t # [x |-> 0, y |-> 0, z |-> 0], "translation")
            \cup Keep(v.r # [x |-> 0, y |-> 0, z |-> 0, w |-> 10], "rotation")
            \cup Keep(v.s # [x |-> 10, y |-> 10, z |-> 10], "scale")
            \cup Keep(v.children # << >>, "children")
       [] e.kind = "Material" ->
            Keep(v.name # "", "name")
            \cup Keep(v.emissive_factor # <<0, 0, 0>>, "emissiveFactor")
            \cup Keep(v.alpha_mode # "OPAQUE", "alphaMode")
            \cup Keep(v.alpha_cutoff # 5, "alphaCutoff")
            \cup Keep(v.double_sided # FALSE, "doubleSided")
            \cup Keep(v.pbr_metallic_roughness #
                        [base_color_factor |-> [r |-> 10, g |-> 10, b |-> 10,
                                                a |-> 10],
                         metallic_factor |-> 10, roughness_factor |-> 10],
                      "pbrMetallicRoughness")
       [] e.kind = "PBRMetallicRoughness" ->
            Keep(v.base_color_factor # [r |-> 10, g |-> 10, b |-> 10, a |-> 10],
                 "baseColorFactor")
            \cup Keep(v.metallic_factor # 10, "metallicFactor")
            \cup Keep(v.roughness_factor # 10, "roughnessFactor")
       [] e.kind = "Mesh" ->
            {"primitives"} \cup Keep(v.name # "", "name")
            \cup Keep(v.weights # << >>, "weights")
       [] e.kind = "MeshPrimitive" ->
            {"attributes"} \cup Keep(v.indices # << >>, "indices")
            \cup Keep(v.material # << >>, "material")
            \cup Keep(v.mode # 4, "mode")
       [] e.kind = "Attributes" ->
            Keep(v.color_0 # << >>, "COLOR_0")
            \cup Keep(v.joints_0 # << >>, "JOINTS_0")
            \cup Keep(v.normal # << >>, "NORMAL")
            \cup Keep(v.position # << >>, "POSITION")
            \cup Keep(v.tangent # << >>, "TANGENT")
            \cup Keep(v.texcoord_0 # << >>, "TEXCOORD_0")
            \cup Keep(v.texcoord_1 # << >>, "TEXCOORD_1")
            \cup Keep(v.texcoord_2 # << >>, "TEXCOORD_2")
            \cup Keep(v.texcoord_3 # << >>, "TEXCOORD_3")
            \cup Keep(v.weights_0 # << >>, "WEIGHTS_0")
       [] e.kind = "Accessor" ->
            {"componentType", "count", "type"} \cup Keep(v.name # "", "name")
            \cup Keep(v.buffer_view # << >>, "bufferView")
            \cup Keep(v.byte_offset # 0, "byteOffset")
            \cup Keep(v.normalized # FALSE, "normalized")
            \cup Keep(v.max # << >>, "max") \cup Keep(v.min # << >>, "min")
       [] e.kind = "BufferView" ->
            {"buffer", "byteLength", "byteOffset"}
            \cup Keep(v.name # "", "name")
            \cup Keep(v.byte_stride # << >>, "byteStride")
            \cup Keep(v.target # << >>, "target")
       [] e.kind = "Buffer" ->
            {"byteLength"} \cup Keep(v.name # "", "name")
            \cup Keep(v.uri # "", "uri")

\* C7 (omission correctness): once an entity has been serialized, the keys
\* of its JSON object are exactly its non-default fields under section 4.1
\* together with the always-emitted ones.
C7_OmissionCorrectness ==
  json.t = "obj" => KeySet(json) = NonDefaultKeys(entity)

\* C8 (offset asymmetry and mandatory fields): a serialized BufferView has
\* the key byteOffset whatever its value, a serialized Accessor has it
\* exactly when the offset is not 0, a serialized Mesh has primitives and a
\* serialized Asset has version, empty or not.
C8_OffsetAsymmetry ==
  json.t = "obj" =>
    /\ entity.kind = "BufferView" =>
         /\ "byteOffset" \in KeySet(json)
         /\ ValueOf(json, "byteOffset") = JNum(entity.v.byte_offset)
    /\ entity.kind = "Accessor" =>
         ("byteOffset" \in KeySet(json) <=> entity.v.byte_offset # 0)
    /\ entity.kind = "Mesh" => "primitives" \in KeySet(json)
    /\ entity.kind = "Asset" => "version" \in KeySet(json)

\* A BufferView with offset 0 has been serialized, and its object has the key
\* byteOffset.
C8_Witness ==
  /\ json.t = "obj"
  /\ entity.kind = "BufferView"
  /\ entity.v.byte_offset = 0
  /\ "byteOffset" \in KeySet(json)

\* ------------------------------------------------------------------------
\* Properties of the export and of the result register (under Spec)
\* ------------------------------------------------------------------------

\* The pair a reader gets from the register.
Register == <<POINTER, SIZE>>

\* The location and length of the buffer as it is now.
BufferNow == <<AsU32(MUTEX_TEST.vec.ptr), AsU32(Vec_len(MUTEX_TEST.vec))>>

\* Every segment of the buffer is the whole output of one export: no pass
\* that stopped half way has left bytes in it.
NoPartialOutput ==
  \A i \in DOMAIN MUTEX_TEST.vec.data :
    MUTEX_TEST.vec.data[i] \in {Concat(Serialized(g)) : g \in Documents}

\* A step in which an export call is made while the lock is held.
StartsInFlight == n_exports' = n_exports + 1 /\ MUTEX_TEST.locked

\* A step in which caller p's export returns to it.
Returns(p) == pc[p] \in {"returned", "panicked"} /\ pc'[p] \notin InExport

\* C1 (exactness): when write_gltf has completed, on a buffer that holds
\* nothing but the complete outputs of exports, size() is the count of the
\* dry run and is the length of the buffer.
C1_Exactness ==
  \A p \in Callers :
    (pc[p] = "returned" /\ NoPartialOutput) =>
      /\ size = space_required[p]
      /\ size = Vec_len(MUTEX_TEST.vec)

\* C9 (atomic publication): in every state, the pair (POINTER, SIZE) is
\* (0, 0) or the location and length one completed export published.
C9_AtomicPublication == Register \in ({<<0, 0>>} \cup published)

\* C10 (append semantics): when write_gltf has completed on a buffer that held
\* L bytes, with N the serialized length, the bytes held on entry are still
\* the first L bytes, the buffer is L + N long and SIZE is L + N; with only
\* complete outputs in the buffer SIZE is the sum of the serialized lengths
\* of all exports so far.
C10_AppendSemantics ==
  \A p \in Callers :
    pc[p] = "returned" =>
      LET L == Vec_len(entry_vec[p])
          N == Len(Concat(Serialized(gltf[p])))
          before == entry_vec[p].data
          after == MUTEX_TEST.vec.data
      IN /\ Len(after) = Len(before) + 1
         /\ SubSeq(after, 1, Len(before)) = before
         /\ after[Len(after)] = Concat(Serialized(gltf[p]))
         /\ Vec_len(MUTEX_TEST.vec) = L + N
         /\ SIZE = L + N
         /\ (NoPartialOutput => SIZE = total_required)

\* A second export has completed on the buffer that held the output of the
\* first.
C10_Witness ==
  \E p \in Callers :
    /\ pc[p] = "returned"
    /\ Vec_len(entry_vec[p]) > 0
    /\ NoPartialOutput
    /\ SIZE > space_required[p]

NoStoreYet ==
  published = {} /\ \A p \in Callers : pc[p] \notin {"store_size", "returned"}

\* C6 (register lifecycle): until an export reaches its stores pointer() and
\* size() return 0; POINTER and SIZE change only in the two stores that end
\* a write_gltf both of whose passes succeeded; a call of pointer() or size()
\* leaves them unchanged.
C6_RegisterLifecycle ==
  /\ [](NoStoreYet => (pointer = 0 /\ size = 0))
  /\ [][/\ Register' # Register =>
             \E p \in Callers :
               \/ pc[p] = "store_pointer" /\ pc'[p] = "store_size"
               \/ pc[p] = "store_size" /\ pc'[p] = "returned"
        /\ rd' # rd => Register' = Register]_vars

\* size() has been called after an export published, and returned the
\* published length.
C6_Witness ==
  /\ rd.fn = "size"
  /\ rd.val > 0
  /\ rd.val = size
  /\ published # {}

====
